---- MODULE Spec2Model ----
(***************************************************************************)
(* A model of src/JS.js (AeroScan page script): the smooth-scroll binder,  *)
(* the scroll-reveal pass, the stats counter and its observer, debounce,   *)
(* the lazy image loader and the active-nav highlighter, together with the *)
(* browser facilities they are written against (interval and timeout       *)
(* timers, IntersectionObserver queues, IEEE-754 double arithmetic).        *)
(***************************************************************************)
EXTENDS Integers, Sequences, FiniteSets, TLC

(***************************************************************************)
(* JavaScript numbers.  A number is a record                               *)
(*   [k |-> "nan"]  |  [k |-> "zero", neg, m |-> <<>>, e |-> 0]            *)
(*   [k |-> "fin", neg, m, e]   value  (-1)^neg * m * 2^e                  *)
(* where m is the 53-bit significand, most significant bit first and       *)
(* m[1] = 1 (all values of the model are normal doubles).                  *)
(***************************************************************************)
Precision == 53

NaN == [k |-> "nan", neg |-> FALSE, m |-> <<>>, e |-> 0]

Zero == [k |-> "zero", neg |-> FALSE, m |-> <<>>, e |-> 0]

Zeros(n) == [i \in 1..n |-> 0]

\* bit strings are handled in chunks of ChunkBits bits, so that every chunk
\* and every intermediate sum fits a machine integer
ChunkBits == 13

ChunkBase == 2 ^ ChunkBits

\* the w low bits of n, most significant first
NatBitsW(n, w) == [i \in 1..w |-> (n \div (2 ^ (w - i))) % 2]

RECURSIVE ChunkNat(_)
ChunkNat(b) ==
  IF b = <<>> THEN 0 ELSE 2 * ChunkNat(SubSeq(b, 1, Len(b) - 1)) + b[Len(b)]

\* the value of a bit string of at most 2 * ChunkBits + 5 bits
RECURSIVE BitsNat(_)
BitsNat(b) ==
  IF Len(b) <= ChunkBits THEN ChunkNat(b)
  ELSE ChunkBase * BitsNat(SubSeq(b, 1, Len(b) - ChunkBits))
         + ChunkNat(SubSeq(b, Len(b) - ChunkBits + 1, Len(b)))

StripZeros(b) ==
  IF \A i \in 1..Len(b) : b[i] = 0 THEN <<>>
  ELSE LET f == CHOOSE i \in 1..Len(b) : b[i] = 1 /\ \A j \in 1..(i - 1) : b[j] = 0
       IN  SubSeq(b, f, Len(b))

NatBits(n) == StripZeros(NatBitsW(n, 31))

\* b + 1 on a bit string, one bit longer when all bits are set
Incr(b) ==
  IF \A i \in 1..Len(b) : b[i] = 1 THEN <<1>> \o Zeros(Len(b))
  ELSE LET z == CHOOSE i \in 1..Len(b) : b[i] = 0 /\ \A j \in (i + 1)..Len(b) : b[j] = 1
       IN  SubSeq(b, 1, z - 1) \o <<1>> \o Zeros(Len(b) - z)

\* a + b + c on bit strings of equal length, the carry out in front
RECURSIVE AddBits(_, _, _)
AddBits(a, b, c) ==
  IF a = <<>> THEN <<c>>
  ELSE LET n == Len(a)
           w == IF n < ChunkBits THEN n ELSE ChunkBits
           s == ChunkNat(SubSeq(a, n - w + 1, n)) + ChunkNat(SubSeq(b, n - w + 1, n)) + c
       IN  AddBits(SubSeq(a, 1, n - w), SubSeq(b, 1, n - w), s \div (2 ^ w))
             \o NatBitsW(s % (2 ^ w), w)

AnySet(b) == \E i \in 1..Len(b) : b[i] = 1

\* round-to-nearest, ties-to-even, of bits * 2^e (sticky: a nonzero tail was cut)
Round(neg, bits, sticky, e) ==
  LET b == StripZeros(bits)
      n == Len(b)
  IN  IF n = 0 THEN [Zero EXCEPT !.neg = neg]
      ELSE IF n <= Precision
        THEN [k |-> "fin", neg |-> neg, m |-> b \o Zeros(Precision - n),
              e |-> e - (Precision - n)]
      ELSE LET kept == SubSeq(b, 1, Precision)
               half == b[Precision + 1] = 1
               rest == sticky \/ AnySet(SubSeq(b, Precision + 2, n))
               up   == half /\ (rest \/ kept[Precision] = 1)
               r    == IF up THEN Incr(kept) ELSE kept
           IN  IF Len(r) > Precision
                 THEN [k |-> "fin", neg |-> neg, m |-> SubSeq(r, 1, Precision),
                       e |-> e + (n - Precision) + 1]
                 ELSE [k |-> "fin", neg |-> neg, m |-> r, e |-> e + (n - Precision)]

FromInt(n) ==
  IF n = 0 THEN Zero
  ELSE Round(n < 0, NatBits(IF n < 0 THEN -n ELSE n), FALSE, 0)

\* long division of a bit string by a small positive integer, a chunk at a
\* time: <<quotient, remainder>>
RECURSIVE DivBits(_, _, _)
DivBits(b, d, r) ==
  IF b = <<>> THEN <<(<<>>), r>>
  ELSE LET w    == IF Len(b) < ChunkBits THEN Len(b) ELSE ChunkBits
           x    == r * (2 ^ w) + ChunkNat(SubSeq(b, 1, w))
           rest == DivBits(SubSeq(b, w + 1, Len(b)), d, x % d)
       IN  <<NatBitsW(x \div d, w) \o rest[1], rest[2]>>

\* x / d for an integral double d = 2000 / 16, correctly rounded
GuardBits == 10

DivInt(x, d) ==
  IF x.k = "nan" THEN NaN
  ELSE IF x.k = "zero" THEN x
  ELSE LET q == DivBits(x.m \o Zeros(GuardBits), d, 0)
       IN  Round(x.neg, q[1], q[2] # 0, x.e - GuardBits)

\* x + y; the operands of the model never have opposite signs
Add(x, y) ==
  IF x.k = "nan" \/ y.k = "nan" THEN NaN
  ELSE IF x.k = "zero" THEN y
  ELSE IF y.k = "zero" THEN x
  ELSE LET e  == IF x.e < y.e THEN x.e ELSE y.e
           mx == x.m \o Zeros(x.e - e)
           my == y.m \o Zeros(y.e - e)
           n  == IF Len(mx) > Len(my) THEN Len(mx) ELSE Len(my)
           ax == Zeros(n - Len(mx)) \o mx
           ay == Zeros(n - Len(my)) \o my
       IN  Round(x.neg, AddBits(ax, ay, 0), FALSE, e)

LexLess(a, b) ==
  \E i \in 1..Len(a) : a[i] < b[i] /\ \A j \in 1..(i - 1) : a[j] = b[j]

\* magnitude order of two non-NaN numbers
MagLess(x, y) ==
  IF y.k = "zero" THEN FALSE
  ELSE IF x.k = "zero" THEN TRUE
  ELSE IF x.e # y.e THEN x.e < y.e
  ELSE LexLess(x.m, y.m)

\* x < y, false when either is NaN
Less(x, y) ==
  IF x.k = "nan" \/ y.k = "nan" THEN FALSE
  ELSE IF x.k = "zero" /\ y.k = "zero" THEN FALSE
  ELSE IF x.k = "zero" THEN ~y.neg
  ELSE IF y.k = "zero" THEN x.neg
  ELSE IF x.neg # y.neg THEN x.neg
  ELSE IF x.neg THEN MagLess(y, x) ELSE MagLess(x, y)

\* x >= y, false when either is NaN
GreaterEq(x, y) ==
  IF x.k = "nan" \/ y.k = "nan" THEN FALSE ELSE ~Less(x, y)

\* a rounding bug: the integer above a fractional value instead of below
FloorRoundsUp(x) ==
  IF x.k = "zero" THEN 0
  ELSE IF x.e >= 0 THEN BitsNat(x.m \o Zeros(x.e))
  ELSE BitsNat(SubSeq(x.m, 1, Precision + x.e))
         + (IF \E i \in 1..Precision : i > Precision + x.e /\ x.m[i] = 1
              THEN 1 ELSE 0)

\* Math.floor of a non-negative number below 2^31, as an integer
Floor(x) ==
  IF x.k = "zero" THEN 0
  ELSE IF x.e >= 0 THEN BitsNat(x.m \o Zeros(x.e))
  ELSE BitsNat(SubSeq(x.m, 1, Precision + x.e))

\* Math.floor as a number: NaN stays NaN
FloorNum(x) == IF x.k = "nan" THEN NaN ELSE FromInt(Floor(x))

(***************************************************************************)
(* Text.  A string is a sequence of one-character strings.                 *)
(***************************************************************************)
DigitChars == <<"0", "1", "2", "3", "4", "5", "6", "7", "8", "9">>

IsDigit(c) == \E i \in 1..Len(DigitChars) : DigitChars[i] = c

DigitValue(c) == (CHOOSE i \in 1..Len(DigitChars) : DigitChars[i] = c) - 1

\* String.prototype.replace(/,/g, '')
RemoveCommas(s) == SelectSeq(s, LAMBDA c : c # ",")

RECURSIVE DigitsNat(_)
DigitsNat(ds) ==
  IF ds = <<>> THEN 0
  ELSE 10 * DigitsNat(SubSeq(ds, 1, Len(ds) - 1)) + DigitValue(ds[Len(ds)])

\* parseInt(s) with no radix, for strings without a 0x prefix: leading blanks
\* are skipped, a sign is read, then the longest run of decimal digits; NaN
\* when that run is empty
ParseInt(s) ==
  LET blanks == IF \A i \in 1..Len(s) : s[i] = " " THEN Len(s)
                ELSE (CHOOSE i \in 1..Len(s) :
                        s[i] # " " /\ \A j \in 1..(i - 1) : s[j] = " ") - 1
      t      == SubSeq(s, blanks + 1, Len(s))
      signed == t # <<>> /\ t[1] \in {"-", "+"}
      u      == IF signed THEN Tail(t) ELSE t
      n      == IF \A i \in 1..Len(u) : IsDigit(u[i]) THEN Len(u)
                ELSE (CHOOSE i \in 1..Len(u) :
                        ~IsDigit(u[i]) /\ \A j \in 1..(i - 1) : IsDigit(u[j])) - 1
      v      == DigitsNat(SubSeq(u, 1, n))
  IN  IF n = 0 THEN NaN
      ELSE FromInt(IF signed /\ t[1] = "-" THEN -v ELSE v)

RECURSIVE NatDigits(_)
NatDigits(n) ==
  IF n < 10 THEN <<DigitChars[n + 1]>>
  ELSE NatDigits(n \div 10) \o <<DigitChars[(n % 10) + 1]>>

\* decimal digits grouped in threes by commas (the en-US grouping)
Grouped(ds) ==
  LET len == Len(ds)
      out == len + ((len - 1) \div 3)
  IN  [j \in 1..out |->
         LET r == out - j
         IN  IF r % 4 = 3 THEN "," ELSE ds[len - (r - (r \div 4))]]

\* Number.prototype.toLocaleString() of NaN or of an integral number below 2^31
ToLocaleString(x) ==
  IF x.k = "nan" THEN <<"N", "a", "N">>
  ELSE LET body == Grouped(NatDigits(Floor([x EXCEPT !.neg = FALSE])))
       IN  IF x.neg /\ x.k = "fin" THEN <<"-">> \o body ELSE body

(***************************************************************************)
(* State.                                                                  *)
(***************************************************************************)
VARIABLES
  statText,       \* textContent of each .stat-number inside the .stats container
  statsObserved,  \* statsObserver still observes the .stats container
  statsPrev,      \* the registration's last reported visibility level, -1 at first
  statsQueue,     \* statsObserver's queued entries, not yet delivered
  timers,         \* the setInterval timers animateCounter created, in creation order
  turn            \* index of the interval timer whose tick is due next

statsVars == <<statText, statsObserved, statsPrev, statsQueue, timers, turn>>

VARIABLES
  page,           \* the page's layout: window height, .reveal tops, sections, nav links
  scrollY,        \* window.pageYOffset
  revealActive,   \* per .reveal element: its classList contains 'active'
  navActive,      \* per .nav-links anchor: its classList contains 'active'
  timeouts,       \* the browser's active setTimeout timers
  timeout,        \* per debounce instance: its closure variable timeout (0: undefined)
  events,         \* scroll events dispatched so far; an event is named by its number
  sinceScroll,    \* ms since the last scroll event, counted up to the longest wait
  shortGap,       \* per scroll event: it came less than the wait after the one before
  runs,           \* per debounce instance and scroll event: invocations of func with it
  seenY           \* per debounce instance: scrollY at the last invocation of func

scrollVars == <<page, scrollY, revealActive, navActive, timeouts, timeout, events,
                sinceScroll, shortGap, runs, seenY>>

VARIABLES
  imgSrc,         \* per img[data-src]: its src attribute
  imgLoaded,      \* per img[data-src]: its classList contains 'loaded'
  imgObserved,    \* the images imageObserver still observes
  imgPrev,        \* per image: the registration's last reported level, -1 at first
  imgQueue        \* imageObserver's queued entries, not yet delivered

lazyVars == <<imgSrc, imgLoaded, imgObserved, imgPrev, imgQueue>>

VARIABLES
  clickLog        \* per click on a bound anchor, in order: what the listener did

clickVars == <<clickLog>>

vars == <<statsVars, scrollVars, lazyVars, clickVars>>

(***************************************************************************)
(* Each component is checked on its own; the others then rest here.        *)
(***************************************************************************)
IdleStats ==
  /\ statText = <<>> /\ statsObserved = FALSE /\ statsPrev = -1
  /\ statsQueue = <<>> /\ timers = <<>> /\ turn = 1

IdleScroll ==
  /\ page = <<>> /\ scrollY = 0 /\ revealActive = <<>> /\ navActive = <<>>
  /\ timeouts = {} /\ timeout = <<>> /\ events = 0 /\ sinceScroll = 0
  /\ shortGap = <<>> /\ runs = <<>> /\ seenY = <<>>

IdleLazy ==
  /\ imgSrc = <<>> /\ imgLoaded = <<>> /\ imgObserved = {} /\ imgPrev = <<>>
  /\ imgQueue = <<>>

IdleClick == clickLog = <<>>

(***************************************************************************)
(* Stats counter: animateCounter and initStatsObserver.                    *)
(***************************************************************************)
\* the .stat-number elements of the page, in document order
StatNumbers == <<"stat1", "stat2">>

\* texts a .stat-number may carry when the page is loaded
StatTexts ==
  { <<"9">>, <<"1", ",", "0", "0", "0">>, <<"1", "0", "+">>, <<"0">>,
    <<"-", "5">>, <<"N", "/", "A">> }

Duration == 2000

FrameMs == 16

\* duration / 16: 125, exact in double arithmetic
Steps == Duration \div FrameMs

\* most entries a queue holds before the browser delivers them
MaxEntries == 3

\* tick counts are recorded up to this many
MaxTicks == 128

\* visibility of an observed target as IntersectionObserver sees it with
\* threshold 0.5: 0 not intersecting, 1 intersecting below the threshold,
\* 2 at least half visible
StatsLevels == 0..2

IsIntersecting(level) == level >= 1

\* animateCounter(element, target): current = 0, increment = target / 125,
\* and a 16 ms interval timer is created
AnimateCounter(ts, element, target) ==
  Append(ts, [el |-> element, target |-> target,
              increment |-> DivInt(target, Steps), current |-> Zero,
              cleared |-> FALSE, ticks |-> 0, shown |-> <<>>])

\* the body of statNumbers.forEach for the elements from index i on
RECURSIVE StartCounters(_, _)
StartCounters(st, i) ==
  IF i > Len(StatNumbers) THEN st
  ELSE LET stat   == StatNumbers[i]
           target == ParseInt(RemoveCommas(st.text[stat]))
       IN  StartCounters([st EXCEPT !.text[stat] = <<"0">>,
                                    !.timers = AnimateCounter(@, stat, target)],
                         i + 1)

\* the observer callback's body for one entry
StatsEntry(st, entry) ==
  IF entry.isIntersecting
    THEN [StartCounters(st, 1) EXCEPT !.observed = FALSE]
    ELSE st

\* entries.forEach of the statsObserver callback
RECURSIVE StatsCallback(_, _)
StatsCallback(st, entries) ==
  IF entries = <<>> THEN st
  ELSE StatsCallback(StatsEntry(st, Head(entries)), Tail(entries))

\* the setInterval callback of timer t: <<timer after the tick, text written>>
IntervalCallback(t) ==
  LET current == Add(t.current, t.increment)
      done    == GreaterEq(current, t.target)
      text    == IF done THEN ToLocaleString(t.target)
                 ELSE ToLocaleString(FloorNum(current))
  IN  [t EXCEPT !.current = current, !.cleared = done, !.shown = text,
                !.ticks = IF @ < MaxTicks THEN @ + 1 ELSE @]

\* the next timer still running, at or after index i, cyclically
NextLive(ts, i) ==
  LET order == [k \in 1..Len(ts) |-> ((i - 1 + k - 1) % Len(ts)) + 1]
      first == CHOOSE k \in 1..Len(ts) :
                 ~ts[order[k]].cleared /\ \A j \in 1..(k - 1) : ts[order[j]].cleared
  IN  order[first]

InitStats ==
  /\ IdleScroll /\ IdleLazy /\ IdleClick
  /\ statText \in [{StatNumbers[i] : i \in 1..Len(StatNumbers)} -> StatTexts]
  /\ statsObserved = TRUE
  /\ statsPrev = -1
  /\ statsQueue = <<>>
  /\ timers = <<>>
  /\ turn = 1

\* a rendering update: the observed container's visibility is sampled and an
\* entry is queued when it differs from the last one reported
StatsFrame(level) ==
  /\ statsObserved
  /\ level # statsPrev
  /\ Len(statsQueue) < MaxEntries
  /\ statsPrev' = level
  /\ statsQueue' = Append(statsQueue, [isIntersecting |-> IsIntersecting(level)])
  /\ UNCHANGED <<statText, statsObserved, timers, turn>>
  /\ UNCHANGED <<scrollVars, lazyVars, clickVars>>

\* the browser delivers the queued entries to the statsObserver callback
StatsNotify ==
  /\ statsQueue # <<>>
  /\ LET st == StatsCallback([text |-> statText, timers |-> timers,
                              observed |-> statsObserved], statsQueue)
     IN  /\ statText' = st.text
         /\ timers' = st.timers
         /\ statsObserved' = st.observed
  /\ statsQueue' = <<>>
  /\ UNCHANGED <<statsPrev, turn>>
  /\ UNCHANGED <<scrollVars, lazyVars, clickVars>>

\* the interval timer whose turn it is fires; timers of equal interval fire
\* in creation order, a cleared timer never fires
IntervalTick ==
  /\ \E i \in 1..Len(timers) : ~timers[i].cleared
  /\ LET i == NextLive(timers, turn)
         t == IntervalCallback(timers[i])
     IN  /\ timers' = [timers EXCEPT ![i] = t]
         /\ statText' = [statText EXCEPT ![t.el] = t.shown]
         /\ turn' = (i % Len(timers)) + 1
  /\ UNCHANGED <<statsObserved, statsPrev, statsQueue>>
  /\ UNCHANGED <<scrollVars, lazyVars, clickVars>>

NextStats ==
  \/ \E level \in StatsLevels : StatsFrame(level)
  \/ StatsNotify
  \/ IntervalTick

SpecStats == InitStats /\ [][NextStats]_vars

(***************************************************************************)
(* Properties of the stats counter.                                        *)
(***************************************************************************)
TimerIds == 1..Len(timers)

Positive(x) == x.k = "fin" /\ ~x.neg

\* the number a timer's last tick displayed; the observer wrote 0 before the
\* first tick
Shown(t) == IF t.ticks = 0 THEN Zero ELSE ParseInt(RemoveCommas(t.shown))

\* C1 as claimed: animateCounter is started at most once for each
\* .stat-number, whatever the visibility of the container does.
C1_StartedAtMostOnce ==
  \A i \in 1..Len(StatNumbers) :
    Cardinality({j \in TimerIds : timers[j].el = StatNumbers[i]}) <= 1

\* C2 as claimed: every counter animation that was started is cleared after
\* finitely many ticks (at most duration / 16 + 1 of them, the most a finite
\* target takes), it never ticks once cleared, and the text written by the
\* clearing tick reads as the target that was parsed.
C2_TerminatesAtTarget ==
  \A j \in TimerIds :
    /\ timers[j].ticks > Steps + 1 => timers[j].cleared
    /\ timers[j].cleared =>
         /\ timers[j].ticks >= 1
         /\ Shown(timers[j]) = timers[j].target

\* what C10 says of one state, with the tick limit as a parameter
CounterInRange(limit) ==
  \A j \in TimerIds :
    LET t == timers[j]
        v == Shown(t)
    IN  (Positive(t.target) /\ t.ticks >= 1) =>
          /\ v.k # "nan"
          /\ ToLocaleString(v) = t.shown
          /\ ~Less(v, Zero)
          /\ ~Less(t.target, v)
          /\ ~t.cleared => Less(v, t.target) /\ t.ticks < limit
          /\ t.cleared => v = t.target /\ t.ticks <= limit

\* the number a running counter displays never decreases from tick to tick
CounterMonotone ==
  \A j \in TimerIds :
    Positive(timers[j].target) => ~Less(Shown(timers'[j]), Shown(timers[j]))

\* C10 as claimed: with a positive integer target the displayed number never
\* decreases, is an integer in 0..target, is below the target before the last
\* tick and equals it on the tick that clears the timer, which comes after at
\* most 125 ticks.
C10_Within125Ticks == [](CounterInRange(Steps)) /\ [][CounterMonotone]_vars

\* C10 amended: the same, with the clearing tick after at most 126 ticks
\* (125 increments of the rounded quotient target / 125 can sum to less than
\* the target).
C10_Within126Ticks == [](CounterInRange(Steps + 1)) /\ [][CounterMonotone]_vars

\* C10 witness: a counter with a positive target was cleared on its 126th tick
\* and another on its 125th
C10_Witness ==
  /\ \E j \in TimerIds :
       Positive(timers[j].target) /\ timers[j].cleared /\ timers[j].ticks = Steps + 1
  /\ \E j \in TimerIds :
       Positive(timers[j].target) /\ timers[j].cleared /\ timers[j].ticks = Steps

(***************************************************************************)
(* Scroll handling: revealOnScroll, updateActiveNavLink, debounce and the  *)
(* two scroll listeners the DOMContentLoaded handler registers.            *)
(***************************************************************************)
RevealPoint == 100

NavOffset == 200

RevealWait == 10

NavWait == 10

\* scroll events dispatched in one run of the model
MaxScrolls == 2

\* the page scrolls in steps of 100 px, MaxScrollSteps of them at most
MaxScrollSteps == 3

ScrollPositions == {100 * k : k \in 0..MaxScrollSteps}

\* page layouts: the window's innerHeight, the document offsets of the .reveal
\* elements, the section[id] elements in document order (id, offsetTop) and
\* the href attributes of the .nav-links anchors
Layouts ==
  << [innerHeight |-> 300,
      reveals  |-> <<100, 400>>,
      sections |-> << [id |-> <<"a">>, top |-> 0], [id |-> <<"b">>, top |-> 300],
                      [id |-> <<"c">>, top |-> 500] >>,
      links    |-> << <<"#", "a">>, <<"#", "b">>, <<"#", "c">>, <<"#", "b">>,
                      <<"p">> >>],
     [innerHeight |-> 400,
      reveals  |-> <<500, 200>>,
      sections |-> << [id |-> <<"a">>, top |-> 300], [id |-> <<"b">>, top |-> 500],
                      [id |-> <<"c">>, top |-> 400] >>,
      links    |-> << <<"#">>, <<"#", "a">>, <<"#", "b">>, <<"#", "c">>,
                      <<"#", "x">> >>] >>

\* element.getBoundingClientRect().top of an element at document offset top
ClientTop(top, y) == top - y

\* an off-by-one bug: an element exactly on the reveal line passes too
RevealedOnLine(elementTop, windowHeight) == elementTop <= windowHeight - RevealPoint

\* the test of revealOnScroll: elementTop < windowHeight - revealPoint
Revealed(elementTop, windowHeight) == elementTop < windowHeight - RevealPoint

\* revealOnScroll(): 'active' is added to every .reveal element that passes
RevealOnScroll(active, pg, y) ==
  [i \in 1..Len(pg.reveals) |->
     active[i] \/ Revealed(ClientTop(pg.reveals[i], y), pg.innerHeight)]

\* the test of updateActiveNavLink: window.pageYOffset >= sectionTop - 200
InView(y, sectionTop) == y >= sectionTop - NavOffset

\* a loop bug: the first section in view is kept instead of the last
RECURSIVE CurrentSectionFirst(_, _, _, _)
CurrentSectionFirst(sections, i, current, y) ==
  IF i > Len(sections) THEN current
  ELSE CurrentSectionFirst(sections, i + 1,
                           IF InView(y, sections[i].top) /\ current = <<>>
                             THEN sections[i].id ELSE current,
                           y)

\* sections.forEach of updateActiveNavLink from index i on: the value of current
RECURSIVE CurrentSection(_, _, _, _)
CurrentSection(sections, i, current, y) ==
  IF i > Len(sections) THEN current
  ELSE CurrentSection(sections, i + 1,
                      IF InView(y, sections[i].top) THEN sections[i].id ELSE current,
                      y)

\* what navLinks.forEach leaves on a link: 'active' removed, then added when
\* the href attribute is `#${current}`
LinkActive(href, current) == href = <<"#">> \o current

\* updateActiveNavLink()
UpdateActiveNavLink(pg, y) ==
  LET current == CurrentSection(pg.sections, 1, <<>>, y)
  IN  [i \in 1..Len(pg.links) |-> LinkActive(pg.links[i], current)]

Instances == {"reveal", "nav"}

\* the wait each debounce instance was created with
WaitOf(inst) == IF inst = "reveal" THEN RevealWait ELSE NavWait

MaxWait == IF RevealWait > NavWait THEN RevealWait ELSE NavWait

\* a scoping bug: the two instances share one timeout variable, so clearing
\* a handle clears it for both
ClearTimeoutShared(tbl, inst, handle) == {t \in tbl : t.id # handle}

\* clearTimeout(handle) for a handle of instance inst
ClearTimeout(tbl, inst, handle) ==
  {t \in tbl : ~(t.inst = inst /\ t.id = handle)}

\* setTimeout(later, wait) by instance inst, later closing over args
SetTimeout(tbl, inst, handle, args) ==
  tbl \cup {[inst |-> inst, id |-> handle, args |-> args, age |-> 0]}

\* a debounce bug: a call made while a timer is pending is dropped, the old
\* timer and its arguments stay
ExecutedFunctionKeepsFirst(st, inst, args) ==
  IF \E t \in st.timeouts : t.inst = inst THEN st
  ELSE [st EXCEPT !.timeouts = @ \cup {[inst |-> inst, id |-> args, args |-> args,
                                        age |-> 0]},
                  !.timeout[inst] = args]

\* a debounce bug: the pending timer is not cleared before a new one is set
ExecutedFunctionNoClear(st, inst, args) ==
  [st EXCEPT !.timeouts = @ \cup {[inst |-> inst, id |-> args, args |-> args,
                                   age |-> 0]},
             !.timeout[inst] = args]

\* executedFunction(...args) of instance inst: the pending timer is cleared
\* and a new one is set; func is not called
ExecutedFunction(st, inst, args) ==
  [st EXCEPT !.timeouts = SetTimeout(ClearTimeout(@, inst, st.timeout[inst]),
                                     inst, args, args),
             !.timeout[inst] = args]

\* func(...args) of instance inst
Func(st, inst, args) ==
  LET ran == [st EXCEPT !.runs[inst][args] = @ + 1, !.seenY[inst] = st.scrollY]
  IN  IF inst = "reveal"
        THEN [ran EXCEPT !.revealActive = RevealOnScroll(@, st.page, st.scrollY)]
        ELSE [ran EXCEPT !.navActive = UpdateActiveNavLink(st.page, st.scrollY)]

\* later() of the timer t, which the browser has taken off its active timers:
\* clearTimeout(timeout), then func(...args)
Later(st, t) ==
  Func([st EXCEPT !.timeouts = ClearTimeout(@ \ {t}, t.inst, st.timeout[t.inst])],
       t.inst, t.args)

ScrollState ==
  [page |-> page, scrollY |-> scrollY, revealActive |-> revealActive,
   navActive |-> navActive, timeouts |-> timeouts, timeout |-> timeout,
   runs |-> runs, seenY |-> seenY]

SetScrollState(st) ==
  /\ page' = st.page
  /\ scrollY' = st.scrollY
  /\ revealActive' = st.revealActive
  /\ navActive' = st.navActive
  /\ timeouts' = st.timeouts
  /\ timeout' = st.timeout
  /\ runs' = st.runs
  /\ seenY' = st.seenY

\* the state the DOMContentLoaded handler leaves: both listeners registered,
\* revealOnScroll() run once against the position the page was loaded at
InitScroll ==
  /\ IdleStats /\ IdleLazy /\ IdleClick
  /\ page \in {Layouts[i] : i \in 1..Len(Layouts)}
  /\ scrollY \in ScrollPositions
  /\ revealActive = RevealOnScroll([i \in 1..Len(page.reveals) |-> FALSE], page, scrollY)
  /\ navActive \in {[i \in 1..Len(page.links) |-> FALSE],
                    [i \in 1..Len(page.links) |-> i = 1]}
  /\ timeouts = {}
  /\ timeout = [inst \in Instances |-> 0]
  /\ events = 0
  /\ sinceScroll = MaxWait
  /\ shortGap = <<>>
  /\ runs = [inst \in Instances |-> [e \in 1..MaxScrolls |-> 0]]
  /\ seenY = [inst \in Instances |-> scrollY]

\* the page is scrolled to y and a scroll event is dispatched: the listeners
\* run in registration order, debounce(revealOnScroll) then
\* debounce(updateActiveNavLink)
ScrollEvent(y) ==
  /\ events < MaxScrolls
  /\ y # scrollY
  /\ LET e  == events + 1
         s0 == [ScrollState EXCEPT !.scrollY = y]
         s1 == ExecutedFunction(s0, "reveal", e)
         s2 == ExecutedFunction(s1, "nav", e)
     IN  /\ SetScrollState(s2)
         /\ events' = e
  /\ shortGap' = Append(shortGap, events > 0 /\ sinceScroll < MaxWait)
  /\ sinceScroll' = 0
  /\ UNCHANGED <<statsVars, lazyVars, clickVars>>

\* one millisecond passes
TimePasses ==
  /\ \/ sinceScroll < MaxWait
     \/ \E t \in timeouts : t.age < WaitOf(t.inst)
  /\ sinceScroll' = IF sinceScroll < MaxWait THEN sinceScroll + 1 ELSE sinceScroll
  /\ timeouts' = {[t EXCEPT !.age = IF @ < WaitOf(t.inst) THEN @ + 1 ELSE @] :
                    t \in timeouts}
  /\ UNCHANGED <<page, scrollY, revealActive, navActive, timeout, events, shortGap,
                 runs, seenY>>
  /\ UNCHANGED <<statsVars, lazyVars, clickVars>>

\* a timer of instance inst whose wait has passed runs its callback, at the
\* time its wait ends or any time later
FireTimeout(inst) ==
  /\ \E t \in timeouts :
       /\ t.inst = inst
       /\ t.age >= WaitOf(inst)
       /\ SetScrollState(Later(ScrollState, t))
  /\ UNCHANGED <<events, sinceScroll, shortGap>>
  /\ UNCHANGED <<statsVars, lazyVars, clickVars>>

FireReveal == FireTimeout("reveal")

FireNav == FireTimeout("nav")

NextScroll ==
  \/ \E y \in ScrollPositions : ScrollEvent(y)
  \/ TimePasses
  \/ FireReveal
  \/ FireNav

SpecScroll == InitScroll /\ [][NextScroll]_vars

\* timer callbacks that are due are eventually run, and time does not stop
FairSpecScroll ==
  /\ SpecScroll
  /\ WF_vars(TimePasses)
  /\ WF_vars(FireReveal)
  /\ WF_vars(FireNav)

(***************************************************************************)
(* Properties of debounce and the scroll listeners.                        *)
(***************************************************************************)
Events == 1..events

\* a burst is a maximal run of scroll events each less than the wait after the
\* one before; event e is the last of its burst
LastOfBurst(e) == e = events \/ ~shortGap[e + 1]

\* the events of the burst that event e ends
BurstOf(e) ==
  {d \in 1..e : \A k \in (d + 1)..e : shortGap[k]}

Pending(inst) == \E t \in timeouts : t.inst = inst

\* the burst that e ends is over for instance inst: a later burst has begun,
\* or no timer of the instance is left
BurstOver(inst, e) == LastOfBurst(e) /\ (e < events \/ ~Pending(inst))

\* func of instance inst is invoked in this step
Invoked(inst) == runs'[inst] # runs[inst]

\* func is invoked only with the latest call's arguments and only when the
\* wait has passed since that call
InvokedAfterWait ==
  \A inst \in Instances : \A e \in 1..MaxScrolls :
    runs'[inst][e] > runs[inst][e] => e = events /\ sinceScroll >= WaitOf(inst)

\* a call of the debounced function does not invoke func
NoSynchronousCall == events' # events => runs' = runs

\* each finished burst has produced exactly one invocation, with the
\* arguments of its last call
BurstsRunOnce ==
  \A inst \in Instances : \A e \in Events :
    BurstOver(inst, e) =>
      /\ runs[inst][e] = 1
      /\ \A d \in BurstOf(e) \ {e} : runs[inst][d] = 0

\* each burst has produced at most one invocation, with the arguments of its
\* last call, and exactly one once no timer of the instance is pending
BurstsRunAtMostOnce ==
  \A inst \in Instances : \A e \in Events :
    /\ runs[inst][e] <= 1
    /\ runs[inst][e] = 1 => LastOfBurst(e)
    /\ (e = events /\ ~Pending(inst)) => runs[inst][e] = 1

\* C3 as claimed: func is invoked only when the wait has passed since the
\* most recent call, every burst of calls less than the wait apart produces
\* exactly one invocation, with the last call's arguments, and no call
\* invokes func synchronously.
C3_BurstRunsExactlyOnce ==
  /\ [](BurstsRunOnce)
  /\ [][InvokedAfterWait]_vars
  /\ [][NoSynchronousCall]_vars

\* C3 amended: the same, except that a burst produces at most one invocation:
\* exactly one when its timer callback runs before the next call, none when a
\* call that comes after the wait still finds the (late) timer pending and
\* cancels it.
C3_BurstRunsAtMostOnce ==
  /\ [](BurstsRunAtMostOnce)
  /\ [][InvokedAfterWait]_vars
  /\ [][NoSynchronousCall]_vars

\* C3 witness: a burst of two calls has ended with one invocation, made with
\* the second call's arguments
C3_Witness ==
  /\ events >= 2 /\ shortGap[2] /\ LastOfBurst(2)
  /\ runs["reveal"][2] = 1 /\ runs["reveal"][1] = 0

\* the top of .reveal element i in the viewport, computed from the page
RevealTop(i, y) == page.reveals[i] - y

RevealIds == 1..Len(revealActive)

\* C4 as claimed: after every run of revealOnScroll an element carries
\* 'active' exactly when its top is above innerHeight - 100.
C4_ActiveIffAboveLine ==
  [][Invoked("reveal") =>
       \A i \in RevealIds :
         revealActive'[i] <=> RevealTop(i, scrollY') < page.innerHeight - 100]_vars

\* C4 amended: after every run of revealOnScroll an element carries 'active'
\* exactly when it carried it before the run or its top is above
\* innerHeight - 100; no step removes 'active', so an element scrolled back
\* below the reveal point stays active.
C4_ActiveOnceAboveLine ==
  /\ [][Invoked("reveal") =>
          \A i \in RevealIds :
            revealActive'[i] <=>
              (revealActive[i] \/ RevealTop(i, scrollY') < page.innerHeight - 100)]_vars
  /\ [][\A i \in RevealIds : revealActive[i] => revealActive'[i]]_vars

\* C4 witness: revealOnScroll has just run at the current position and left
\* 'active' on an element that is below the reveal point, and left another
\* element without it
C4_Witness ==
  /\ events >= 1 /\ runs["reveal"][events] = 1 /\ seenY["reveal"] = scrollY
  /\ \E i \in RevealIds :
       revealActive[i] /\ RevealTop(i, scrollY) >= page.innerHeight - 100

\* the sections in view at position y, by the test of the code
SectionsInView(y) ==
  {i \in 1..Len(page.sections) : y >= page.sections[i].top - 200}

\* the id of the last section in document order that is in view, '' when none
LastInView(y) ==
  IF SectionsInView(y) = {} THEN <<>>
  ELSE page.sections[CHOOSE i \in SectionsInView(y) :
                       \A j \in SectionsInView(y) : j <= i].id

NavRan == \E e \in Events : runs["nav"][e] > 0

LinkIds == 1..Len(navActive)

NamesSection(href) ==
  \E i \in 1..Len(page.sections) : href = <<"#">> \o page.sections[i].id

\* C5: once updateActiveNavLink has run, the active nav links are exactly those
\* whose href is '#' followed by the id of the last section in document order
\* with pageYOffset >= offsetTop - 200 at the position of the last run; all
\* active links carry one href, and no link naming a section is active when
\* no section is in view.
C5_ActiveLinksMatchSection ==
  NavRan =>
    /\ \A l \in LinkIds :
         navActive[l] <=> page.links[l] = <<"#">> \o LastInView(seenY["nav"])
    /\ \A l, k \in LinkIds :
         navActive[l] /\ navActive[k] => page.links[l] = page.links[k]
    /\ SectionsInView(seenY["nav"]) = {} =>
         \A l \in LinkIds : navActive[l] => ~NamesSection(page.links[l])

\* C5 witness: after a run two links of the section in view are active and the
\* link that was active in the markup is not
C5_Witness ==
  /\ NavRan
  /\ \E l, k \in LinkIds : l # k /\ navActive[l] /\ navActive[k]
  /\ ~navActive[1]

\* the timers and the handle of instance inst
TimersOf(tbl, inst) == {t \in tbl : t.inst = inst}

\* a step that only schedules, cancels or fires timers of one instance
\* leaves the other's timers and handle as they were
Independent ==
  \A inst \in Instances :
    (Invoked(inst) /\ events' = events) =>
      \A other \in Instances \ {inst} :
        /\ TimersOf(timeouts', other) = TimersOf(timeouts, other)
        /\ timeout'[other] = timeout[other]
        /\ runs'[other] = runs[other]

\* a scroll event reschedules both instances
BothRescheduled ==
  events' # events =>
    \A inst \in Instances :
      TimersOf(timeouts', inst) =
        {[inst |-> inst, id |-> events', args |-> events', age |-> 0]}

\* C8 as claimed: the two debounce instances own their timers, a scroll event
\* reschedules both, a timer step of one never touches the other, and every
\* burst of scrolling ends with each function invoked exactly once.
C8_EachBurstRunsBothOnce ==
  /\ [][Independent]_vars
  /\ [][BothRescheduled]_vars
  /\ [](\A inst \in Instances : \A e \in Events :
          (BurstOver(inst, e) /\ ~Pending("reveal") /\ ~Pending("nav")) =>
            /\ runs[inst][e] = 1
            /\ \A d \in BurstOf(e) \ {e} : runs[inst][d] = 0)

\* C8 amended: the same, except for the count: once the scrolling has ended
\* and both timers have fired, each function has been invoked exactly once
\* with the last scroll event; for an earlier burst each function has been
\* invoked at most once, and not necessarily both (a scroll event that comes
\* between the two timer callbacks cancels only the one still pending).
C8_LastBurstRunsBothOnce ==
  /\ [][Independent]_vars
  /\ [][BothRescheduled]_vars
  /\ [](\A inst \in Instances :
          /\ (events > 0 /\ ~Pending(inst)) => runs[inst][events] = 1
          /\ \A e \in Events :
               /\ runs[inst][e] <= 1
               /\ \A d \in BurstOf(e) \ {e} : LastOfBurst(e) => runs[inst][d] = 0)

\* C8 witness: a scroll event came between the two timer callbacks of the
\* event before it, and in the end both functions ran once with the last
\* event
C8_Witness ==
  /\ events = 2 /\ runs["reveal"][1] = 1 /\ runs["nav"][1] = 0
  /\ ~Pending("reveal") /\ ~Pending("nav")
  /\ runs["reveal"][2] = 1 /\ runs["nav"][2] = 1

\* C9: after each scroll event either another one follows or both functions
\* run, against the position that event scrolled to; and neither runs while
\* less than 10 ms have passed since the last scroll event.
C9_SettlesOnLastPosition ==
  /\ \A e \in 1..MaxScrolls :
       (events = e) ~>
         (\/ events > e
          \/ \A inst \in Instances :
               runs[inst][e] >= 1 /\ seenY[inst] = scrollY /\ ~Pending(inst))
  /\ [][\A inst \in Instances : Invoked(inst) => sinceScroll >= 10]_vars

\* C9 witness: the scrolling ended with a burst of two events and both
\* functions have run against the final position
C9_Witness ==
  /\ events >= 2 /\ shortGap[events]
  /\ \A inst \in Instances :
       runs[inst][events] = 1 /\ seenY[inst] = scrollY /\ ~Pending(inst)
  /\ \E i \in RevealIds : revealActive[i] <=> ~(RevealTop(i, scrollY) < page.innerHeight - 100)

(***************************************************************************)
(* Lazy image loading: initLazyLoading.                                    *)
(***************************************************************************)
\* the img[data-src] elements of the page, in document order
Images ==
  << [src |-> "blank.gif", dataSrc |-> "a.jpg"],
     [src |-> "blank.gif", dataSrc |-> "b.jpg"],
     [src |-> "", dataSrc |-> "c.jpg"] >>

ImageIds == 1..Len(Images)

\* visibility of an image as imageObserver sees it with the default threshold:
\* 0 not intersecting, 1 intersecting
LazyLevels == 0..1

\* most entries imageObserver's queue holds before the browser delivers them
MaxImgEntries == 5

\* a missing test: every delivered entry loads its image
LoadsOnAny(entry) == TRUE

\* the test of the imageObserver callback
LoadsOn(entry) == entry.isIntersecting

\* the imageObserver callback's body for one entry
LazyEntry(st, entry) ==
  IF LoadsOn(entry)
    THEN [st EXCEPT !.src[entry.target] = Images[entry.target].dataSrc,
                    !.loaded[entry.target] = TRUE,
                    !.observed = @ \ {entry.target}]
    ELSE st

\* entries.forEach of the imageObserver callback
RECURSIVE LazyCallback(_, _)
LazyCallback(st, entries) ==
  IF entries = <<>> THEN st
  ELSE LazyCallback(LazyEntry(st, Head(entries)), Tail(entries))

\* the state initLazyLoading leaves: every img[data-src] observed
InitLazy ==
  /\ IdleStats /\ IdleScroll /\ IdleClick
  /\ imgSrc = [i \in ImageIds |-> Images[i].src]
  /\ imgLoaded = [i \in ImageIds |-> FALSE]
  /\ imgObserved = ImageIds
  /\ imgPrev = [i \in ImageIds |-> -1]
  /\ imgQueue = <<>>

\* a rendering update: every observed image's visibility is sampled and an
\* entry is queued, in target order, for each that differs from its last report
LazyFrame(levels) ==
  LET changed == {i \in imgObserved : levels[i] # imgPrev[i]}
      entries == [i \in ImageIds |->
                    [target |-> i, isIntersecting |-> IsIntersecting(levels[i])]]
  IN  /\ changed # {}
      /\ \A i \in ImageIds \ changed : levels[i] = 0
      /\ Len(imgQueue) + Cardinality(changed) <= MaxImgEntries
      /\ imgQueue' = imgQueue \o SelectSeq(entries, LAMBDA en : en.target \in changed)
      /\ imgPrev' = [i \in ImageIds |-> IF i \in changed THEN levels[i] ELSE imgPrev[i]]
      /\ UNCHANGED <<imgSrc, imgLoaded, imgObserved>>
      /\ UNCHANGED <<statsVars, scrollVars, clickVars>>

\* the browser delivers the queued entries to the imageObserver callback
LazyNotify ==
  /\ imgQueue # <<>>
  /\ LET st == LazyCallback([src |-> imgSrc, loaded |-> imgLoaded,
                             observed |-> imgObserved], imgQueue)
     IN  /\ imgSrc' = st.src
         /\ imgLoaded' = st.loaded
         /\ imgObserved' = st.observed
  /\ imgQueue' = <<>>
  /\ UNCHANGED imgPrev
  /\ UNCHANGED <<statsVars, scrollVars, clickVars>>

NextLazy ==
  \/ \E levels \in [ImageIds -> LazyLevels] : LazyFrame(levels)
  \/ LazyNotify

SpecLazy == InitLazy /\ [][NextLazy]_vars

\* the step delivers an entry for image i with isIntersecting = b
Delivered(i, b) ==
  /\ imgQueue # <<>> /\ imgQueue' = <<>>
  /\ \E k \in 1..Len(imgQueue) : imgQueue[k] = [target |-> i, isIntersecting |-> b]

ImageChanges(i) ==
  \/ imgSrc'[i] # imgSrc[i]
  \/ imgLoaded'[i] # imgLoaded[i]
  \/ (i \in imgObserved) # (i \in imgObserved')

\* C6: an image keeps its placeholder src, unloaded and observed, until an
\* intersecting entry for it is delivered; that delivery sets src to data-src,
\* adds 'loaded' and unobserves it; nothing changes it afterwards and no
\* entry is queued for it again; a non-intersecting entry changes nothing.
C6_SwappedOnceOnIntersection ==
  /\ [](\A i \in ImageIds :
          /\ ~imgLoaded[i] => imgSrc[i] = Images[i].src /\ i \in imgObserved
          /\ imgLoaded[i] => imgSrc[i] = Images[i].dataSrc /\ i \notin imgObserved
          /\ i \notin imgObserved =>
               \A k \in 1..Len(imgQueue) : imgQueue[k].target # i)
  /\ [][\A i \in ImageIds :
          /\ ImageChanges(i) => Delivered(i, TRUE) /\ ~imgLoaded[i]
          /\ Delivered(i, TRUE) =>
               imgSrc'[i] = Images[i].dataSrc /\ imgLoaded'[i] /\ i \notin imgObserved'
          /\ imgLoaded[i] => ~ImageChanges(i)]_vars

\* C6 witness: one image has been swapped; the other was reported as not
\* intersecting, the report was delivered, and it still has its placeholder
C6_Witness ==
  /\ imgLoaded[1] /\ imgSrc[1] = "a.jpg" /\ 1 \notin imgObserved
  /\ ~imgLoaded[2] /\ imgSrc[2] = "blank.gif" /\ imgPrev[2] = 0 /\ imgQueue = <<>>

(***************************************************************************)
(* Smooth scrolling: initSmoothScrolling.                                  *)
(***************************************************************************)
\* the ids of the page's elements
PageIds == { <<"a">>, <<"b">>, <<"1", "a">> }

\* the href attributes of the anchors matching a[href^="#"]
Anchors ==
  << <<"#", "a">>, <<"#", "b">>, <<"#", "z">>, <<"#">>, <<"#", "1", "a">> >>

\* clicks in one run of the model
MaxClicks == 3

\* '#' followed by a CSS identifier, over letters and digits: the identifier
\* is not empty and does not start with a digit
ValidSelector(sel) ==
  Len(sel) >= 2 /\ sel[1] = "#" /\ ~IsDigit(sel[2])

\* document.querySelector(sel) for an id selector: a SyntaxError for an
\* invalid selector, else the element with that id or null (written <<>>)
QuerySelector(sel) ==
  IF ~ValidSelector(sel) THEN [threw |-> TRUE, el |-> <<>>]
  ELSE [threw |-> FALSE, el |-> IF Tail(sel) \in PageIds THEN Tail(sel) ELSE <<>>]

\* the click listener of an anchor: preventDefault, querySelector, and
\* scrollIntoView when a target was found
ClickListener(href) ==
  LET q == QuerySelector(href)
  IN  [href |-> href, prevented |-> TRUE, threw |-> q.threw,
       scrolledTo |-> IF ~q.threw /\ q.el # <<>> THEN q.el ELSE <<>>]

InitClick ==
  /\ IdleStats /\ IdleScroll /\ IdleLazy
  /\ clickLog = <<>>

Click(a) ==
  /\ Len(clickLog) < MaxClicks
  /\ clickLog' = Append(clickLog, ClickListener(Anchors[a]))
  /\ UNCHANGED <<statsVars, scrollVars, lazyVars>>

NextClick == \E a \in 1..Len(Anchors) : Click(a)

SpecClick == InitClick /\ [][NextClick]_vars

\* C7 as claimed: every click has its default prevented, scrollIntoView is
\* called on the element the href names when there is one, and when there is
\* none nothing is scrolled and nothing else happens (no error is raised).
C7_ClicksHandled ==
  \A k \in 1..Len(clickLog) :
    LET c == clickLog[k]
    IN  /\ c.prevented
        /\ Tail(c.href) \in PageIds => c.scrolledTo = Tail(c.href)
        /\ Tail(c.href) \notin PageIds => c.scrolledTo = <<>> /\ ~c.threw

====
